---- MODULE Spec2Model ----
(***************************************************************************)
(* Route-search engine of the Addis Ababa path finder:                     *)
(*   PathfindingService.bfs_shortest_path,                                 *)
(*   PathfindingService.find_all_shortest_paths_optimized (batch),         *)
(*   PathfindingService.find_all_shortest_paths_streaming (generator),     *)
(*   PathCalculator.calculate_path_distance / paths_are_similar.           *)
(*                                                                         *)
(* Python values:  None is <<>> and a present value x is <<x>> (Optional), *)
(* a list is a sequence, a set is a set, a dict is a function whose        *)
(* DOMAIN is the set of keys.                                              *)
(***************************************************************************)
EXTENDS Integers, Sequences, FiniteSets, TLC

\* ------------------------------------------------------------------ bounds
NumNodes == 4
MaxPaths == 3
NumLimitNodes == 3
MaxLength == 3
MaxDistance == 4
MaxTime == 4
\* Clicks on the find button
MaxClicks == 2

\* ----------------------------------------------------- program constants
DEFAULT_MAX_PATHS == 5
DEFAULT_THRESHOLD_TENTHS == 8

\* ------------------------------------------------------- Python Optional
None == <<>>
Some(x) == <<x>>
IsNone(o) == o = <<>>
Val(o) == o[1]
\* Python truthiness of an Optional number: None and 0 are both falsy
Truthy(o) == o # <<>> /\ o[1] # 0

\* ------------------------------------------------------------ sequences
Reverse(s) == [i \in 1..Len(s) |-> s[Len(s) + 1 - i]]
SeqToSet(s) == {s[i] : i \in 1..Len(s)}
Max(a, b) == IF a >= b THEN a ELSE b

\* ---------------------------------------------------------------- graph
Nodes == 1..NumNodes
\* an undirected edge is a two-element set of nodes
EdgesOver(V) == {{u, v} : u \in V, v \in V} \ {{u} : u \in V}
AllEdges == EdgesOver(Nodes)
RECURSIVE SortedSeq(_)
SortedSeq(S) ==
    IF S = {} THEN <<>>
    ELSE LET m == CHOOSE x \in S : \A y \in S : x <= y
         IN <<m>> \o SortedSeq(S \ {m})
NeighborSet(V, E, n) == {m \in V : {n, m} \in E}
\* adjacency lists of the undirected graph with edge set E; the iteration
\* order of a node's neighbours is the graph's insertion order: ascending,
\* or (zigzag) descending at the even nodes
Adjacency(V, E, zigzag) ==
    [n \in V |->
        IF zigzag /\ n % 2 = 0
        THEN Reverse(SortedSeq(NeighborSet(V, E, n)))
        ELSE SortedSeq(NeighborSet(V, E, n))]

VARIABLES
    adj,              \* graph_model: node -> list of neighbours
    edge_length,      \* graph_model.graph: edge -> 'length' attribute (metres)
    start, goal,      \* the locations passed by the caller
    max_nodes, max_distance, find_alternative, max_paths,  \* call arguments
    pc,               \* where the caller is
    bfs,              \* locals of the running bfs_shortest_path
    bfs_result,       \* what bfs_shortest_path returned
    batch_result,     \* what find_all_shortest_paths_optimized returned
    stream,           \* the streaming generator and what it has yielded
    classic_dfs,      \* ClassicDFSController.classic_dfs: the algorithm object's fields
    calls,            \* the calls of find_paths_with_constraints, one per thread
    validation,       \* a call of TimeConstraint.validate: its arguments and result
    similarity,       \* a call of PathCalculator.paths_are_similar
    gui               \* PathFinderGUI: the button, its workers, the Tk event queue

inputs == <<adj, edge_length, start, goal, max_nodes, max_distance,
            find_alternative, max_paths>>
dfs_vars == <<classic_dfs, calls>>
host_vars == <<validation, similarity, gui>>
vars == <<adj, edge_length, start, goal, max_nodes, max_distance,
          find_alternative, max_paths, pc, bfs, bfs_result, batch_result, stream,
          classic_dfs, calls, validation, similarity, gui>>

\* ------------------------------------------------------ location model
NonExistentPlace == 0
Locations == Nodes \cup {NonExistentPlace}
\* LocationModel.get_nearest_node raises ValueError for a place it cannot
\* find; a place that is found resolves to the node of the graph nearest to it
Resolvable(loc) == loc \in DOMAIN adj
get_nearest_node(loc) == loc

\* "if start_node == goal_node"
\* (mutant) the check is missing
same_location_unchecked(start_node, goal_node) == FALSE
same_location(start_node, goal_node) == start_node = goal_node

\* ------------------------------------------------------- graph model
get_neighbors(a, n) == a[n]

\* ----------------------------------------------------- path calculator
\* PathCalculator.calculate_path_distance: the sum of the 'length' of the
\* edges between consecutive nodes; a pair without edge data is skipped
RECURSIVE calculate_path_distance(_, _)
calculate_path_distance(len, path) ==
    IF Len(path) < 2 THEN 0
    ELSE (IF {path[1], path[2]} \in DOMAIN len THEN len[{path[1], path[2]}] ELSE 0)
         + calculate_path_distance(len, Tail(path))

\* PathCalculator.paths_are_similar(path1, path2, threshold), the threshold
\* in tenths, in integers: common / max > t/10  <=>  10 * common > t * max
\* (max is positive when path2 is not empty)
\* (mutant) the overlap is measured against path1 alone
paths_are_similar_to_first(path1, path2, threshold) ==
    IF path2 = <<>> THEN FALSE
    ELSE LET common == SeqToSet(path1) \cap SeqToSet(path2)
         IN 10 * Cardinality(common) > threshold * Cardinality(SeqToSet(path1))
paths_are_similar_threshold(path1, path2, threshold) ==
    IF path2 = <<>> THEN FALSE
    ELSE LET common == SeqToSet(path1) \cap SeqToSet(path2)
             larger == Max(Cardinality(SeqToSet(path1)), Cardinality(SeqToSet(path2)))
         IN 10 * Cardinality(common) > threshold * larger
\* "threshold: float = 0.8"
paths_are_similar(path1, path2) ==
    paths_are_similar_threshold(path1, path2, DEFAULT_THRESHOLD_TENTHS)

\* PathfindingService._paths_are_same
paths_are_same(path1, path2) ==
    IF path2 = <<>> THEN FALSE ELSE paths_are_similar(path1, path2)

\* PathfindingService._reconstruct_path: follow parent[] back to None
RECURSIVE ReconstructBack(_, _)
ReconstructBack(parent, node) ==
    IF IsNone(node) THEN <<>>
    ELSE <<Val(node)>> \o ReconstructBack(parent, parent[Val(node)])
\* (mutant) "while parent[node] is not None": the start node is left out
RECURSIVE ReconstructBackStopEarly(_, _)
ReconstructBackStopEarly(parent, node) ==
    IF IsNone(parent[Val(node)]) THEN <<>>
    ELSE <<Val(node)>> \o ReconstructBackStopEarly(parent, parent[Val(node)])
reconstruct_path_without_start(parent, goal_node) ==
    Reverse(ReconstructBackStopEarly(parent, Some(goal_node)))
\* (mutant) "return path": the [::-1] is left out
reconstruct_path_unreversed(parent, goal_node) == ReconstructBack(parent, Some(goal_node))
reconstruct_path(parent, goal_node) == Reverse(ReconstructBack(parent, Some(goal_node)))

\* -------------------------------------------------- bfs_shortest_path
\* The value bfs_shortest_path returns: (primary_path, visited, alternative_path)
BfsReturn(path, visited, alt) ==
    [primary_path |-> path, visited |-> visited, alternative_path |-> alt]

\* The locals after "queue = deque([start_node]) ... alternative_path = None".
\* expanded is not a local of the code: it records the nodes whose
\* neighbours the for loop has iterated.
BfsLocals(start_node, goal_node) ==
    [start_node |-> start_node, goal_node |-> goal_node,
     queue |-> <<start_node>>, visited |-> {start_node},
     parent |-> (start_node :> None), nodes_processed |-> 0,
     shortest_length |-> None, alternative_path |-> None,
     expanded |-> {}]

\* (mutant) the set returned with the path is the set of expanded nodes
GoalReachedReturnsExpanded(l, args, neighbor) ==
    LET path == reconstruct_path(l.parent, neighbor)
        first == IsNone(l.shortest_length)
        l1 == IF first THEN [l EXCEPT !.shortest_length = Some(Len(path))] ELSE l
        too_far == /\ first
                   /\ Truthy(args.max_distance)
                   /\ calculate_path_distance(args.edge_length, path)
                          > Val(args.max_distance)
    IN  IF too_far
        THEN [l |-> l1, ret |-> Some(BfsReturn(None, l1.expanded, None))]
        ELSE IF ~args.find_alternative
        THEN [l |-> l1, ret |-> Some(BfsReturn(Some(path), l1.expanded, None))]
        ELSE [l |-> l1, ret |-> None]
\* What happens when the neighbour just enqueued is the goal (the body of
\* "if neighbor == goal_node"); l are the locals after the enqueue.  The
\* result is the locals and, when the code returns here, the return value.
GoalReached(l, args, neighbor) ==
    LET path == reconstruct_path(l.parent, neighbor)
        first == IsNone(l.shortest_length)
        l1 == IF first THEN [l EXCEPT !.shortest_length = Some(Len(path))] ELSE l
        too_far == /\ first
                   /\ Truthy(args.max_distance)
                   /\ calculate_path_distance(args.edge_length, path)
                          > Val(args.max_distance)
        is_alt == /\ ~first
                  /\ args.find_alternative
                  /\ IsNone(l.alternative_path)
                  /\ Len(path) = Val(l.shortest_length)
                  /\ ~paths_are_same(path, <<>>)
    IN  IF too_far
        THEN [l |-> l1, ret |-> Some(BfsReturn(None, l1.visited, None))]
        ELSE IF is_alt
        THEN [l |-> [l1 EXCEPT !.alternative_path = Some(path)], ret |-> None]
        ELSE IF ~args.find_alternative
        THEN [l |-> l1, ret |-> Some(BfsReturn(Some(path), l1.visited, None))]
        ELSE [l |-> l1, ret |-> None]

\* "for neighbor in self.graph_model.get_neighbors(current)" from the i-th
\* neighbour on
RECURSIVE ForNeighbors(_, _, _, _, _)
ForNeighbors(l, args, current, nbrs, i) ==
    IF i > Len(nbrs) THEN [l |-> l, ret |-> None]
    ELSE LET neighbor == nbrs[i] IN
         IF neighbor \in l.visited
         THEN ForNeighbors(l, args, current, nbrs, i + 1)
         ELSE LET l1 == [l EXCEPT !.visited = @ \cup {neighbor},
                                  !.parent = @ @@ (neighbor :> Some(current)),
                                  !.queue = Append(@, neighbor)]
                  r == IF neighbor = l.goal_node
                       THEN GoalReached(l1, args, neighbor)
                       ELSE [l |-> l1, ret |-> None]
              IN IF IsNone(r.ret)
                 THEN ForNeighbors(r.l, args, current, nbrs, i + 1)
                 ELSE r

\* "if max_nodes and nodes_processed > max_nodes"
\* (mutant) one node too many is let through
node_limit_exceeded_late(nodes_processed, mn) ==
    Truthy(mn) /\ nodes_processed > Val(mn) + 1
node_limit_exceeded(nodes_processed, mn) == Truthy(mn) /\ nodes_processed > Val(mn)
\* (mutant) the node limit is tested after the for loop instead of before it
BfsIterationLimitAfterExpand(l, args) ==
    LET current == Head(l.queue)
        l1 == [l EXCEPT !.queue = Tail(@), !.nodes_processed = @ + 1]
        r == ForNeighbors([l1 EXCEPT !.expanded = @ \cup {current}], args, current,
                          get_neighbors(args.adj, current), 1)
    IN  IF node_limit_exceeded(l1.nodes_processed, args.max_nodes)
        THEN [l |-> r.l, ret |-> Some(BfsReturn(None, r.l.visited, None))]
        ELSE r
\* One iteration of "while queue": popleft, count, node limit, for loop
BfsIteration(l, args) ==
    LET current == Head(l.queue)
        l1 == [l EXCEPT !.queue = Tail(@), !.nodes_processed = @ + 1]
    IN  IF node_limit_exceeded(l1.nodes_processed, args.max_nodes)
        THEN [l |-> l1, ret |-> Some(BfsReturn(None, l1.visited, None))]
        ELSE ForNeighbors([l1 EXCEPT !.expanded = @ \cup {current}], args, current,
                          get_neighbors(args.adj, current), 1)

\* The code after the while loop ("# Return results")
\* (mutant) "return None, set(), None" when no path was found
BfsAfterLoopEmptyVisited(l) ==
    IF ~IsNone(l.shortest_length)
    THEN BfsReturn(Some(reconstruct_path(l.parent, l.goal_node)), l.visited,
                   l.alternative_path)
    ELSE BfsReturn(None, {}, None)
BfsAfterLoop(l) ==
    IF ~IsNone(l.shortest_length)
    THEN BfsReturn(Some(reconstruct_path(l.parent, l.goal_node)), l.visited,
                   l.alternative_path)
    ELSE BfsReturn(None, l.visited, None)

\* "while queue" run to the return of bfs_shortest_path: the locals at the
\* return and the value returned
RECURSIVE BfsWhile(_, _)
BfsWhile(l, args) ==
    LET r == BfsIteration(l, args)
    IN  IF ~IsNone(r.ret) THEN [l |-> r.l, ret |-> Val(r.ret)]
        ELSE IF r.l.queue = <<>> THEN [l |-> r.l, ret |-> BfsAfterLoop(r.l)]
        ELSE BfsWhile(r.l, args)

\* ---------------------------------- PathfindingService._build_parent_tree
TreeLocals(start_node) ==
    [queue |-> <<start_node>>, visited |-> {start_node},
     distance |-> (start_node :> 0), parents |-> (start_node :> <<>>),
     dequeued |-> <<>>]

\* The first visit of a neighbour in _build_parent_tree
TreeFirstVisit(t, current, neighbor) ==
    [t EXCEPT !.visited = @ \cup {neighbor},
              !.distance = @ @@ (neighbor :> t.distance[current] + 1),
              !.parents = @ @@ (neighbor :> <<current>>),
              !.queue = Append(@, neighbor)]
\* (mutant) a later parent is put in front of the earlier ones
TreeVisitLaterParentFirst(t, current, neighbor) ==
    IF neighbor \notin t.visited
    THEN TreeFirstVisit(t, current, neighbor)
    ELSE IF t.distance[neighbor] = t.distance[current] + 1
    THEN [t EXCEPT !.parents[neighbor] = <<current>> \o @]
    ELSE t
\* (mutant) the elif branch is missing: only the first parent is recorded
TreeVisitFirstParentOnly(t, current, neighbor) ==
    IF neighbor \notin t.visited
    THEN TreeFirstVisit(t, current, neighbor)
    ELSE t
\* (mutant) "if" for "elif": a neighbour just visited is given its parent twice
TreeVisitIfForElif(t, current, neighbor) ==
    LET t1 == IF neighbor \notin t.visited THEN TreeFirstVisit(t, current, neighbor) ELSE t
    IN IF t1.distance[neighbor] = t1.distance[current] + 1
       THEN [t1 EXCEPT !.parents[neighbor] = Append(@, current)]
       ELSE t1
\* The body of "for neighbor in ...get_neighbors(current)" of _build_parent_tree
TreeVisit(t, current, neighbor) ==
    IF neighbor \notin t.visited
    THEN TreeFirstVisit(t, current, neighbor)
    ELSE IF t.distance[neighbor] = t.distance[current] + 1
    THEN [t EXCEPT !.parents[neighbor] = Append(@, current)]
    ELSE t

RECURSIVE TreeForNeighbors(_, _, _, _)
TreeForNeighbors(t, current, nbrs, i) ==
    IF i > Len(nbrs) THEN t
    ELSE TreeForNeighbors(TreeVisit(t, current, nbrs[i]), current, nbrs, i + 1)

\* "while queue": stops when the goal is dequeued.  dequeued is not a local
\* of the code: it lists the nodes popped.
RECURSIVE TreeLoop(_, _, _)
TreeLoop(t, a, goal_node) ==
    IF t.queue = <<>> THEN t
    ELSE LET current == Head(t.queue)
             t1 == [t EXCEPT !.queue = Tail(@), !.dequeued = Append(@, current)]
         IN IF current = goal_node THEN t1
            ELSE TreeLoop(TreeForNeighbors(t1, current, get_neighbors(a, current), 1),
                          a, goal_node)

build_parent_tree(a, start_node, goal_node) == TreeLoop(TreeLocals(start_node), a, goal_node)

\* ------------------------------------ PathfindingService._backtrack_paths
\* "if len(all_paths) >= max_paths"
\* (mutant) ">" for ">="
backtrack_cap_off_by_one(all_paths, mp) == Len(all_paths) > mp
backtrack_cap_reached(all_paths, mp) == Len(all_paths) >= mp
\* all_paths after the call _backtrack_paths(node, current_path, all_paths, ...)
RECURSIVE backtrack_paths(_, _, _, _, _, _)
RECURSIVE BacktrackParents(_, _, _, _, _, _, _)
backtrack_paths(node, current_path, all_paths, start_node, mp, parents) ==
    IF backtrack_cap_reached(all_paths, mp) THEN all_paths
    ELSE IF node = start_node THEN Append(all_paths, Reverse(current_path))
    ELSE IF node \in DOMAIN parents
    THEN BacktrackParents(node, 1, current_path, all_paths, start_node, mp, parents)
    ELSE all_paths
\* "for parent in parents[node]" from the i-th parent on
BacktrackParents(node, i, current_path, all_paths, start_node, mp, parents) ==
    IF i > Len(parents[node]) \/ backtrack_cap_reached(all_paths, mp) THEN all_paths
    ELSE BacktrackParents(node, i + 1, current_path,
             backtrack_paths(parents[node][i], Append(current_path, parents[node][i]),
                             all_paths, start_node, mp, parents),
             start_node, mp, parents)

\* ------------------------------------ PathfindingService._stream_backtrack
\* The paths the generator yields, in the order it yields them, if it is
\* driven to exhaustion; the generator is lazy, so the consumer that has
\* pulled k items has made it build the first k of them only.
RECURSIVE stream_backtrack(_, _, _, _)
RECURSIVE StreamParents(_, _, _, _, _)
stream_backtrack(node, current_path, start_node, parents) ==
    IF node = start_node THEN <<Reverse(current_path)>>
    ELSE IF node \in DOMAIN parents
    THEN StreamParents(node, 1, current_path, start_node, parents)
    ELSE <<>>
StreamParents(node, i, current_path, start_node, parents) ==
    IF i > Len(parents[node]) THEN <<>>
    ELSE stream_backtrack(parents[node][i], Append(current_path, parents[node][i]),
                          start_node, parents)
         \o StreamParents(node, i + 1, current_path, start_node, parents)

\* ------------------------------------------------------------- the calls
\* The arguments and the graph a call of bfs_shortest_path reads
Args ==
    [adj |-> adj, edge_length |-> edge_length, max_nodes |-> max_nodes,
     max_distance |-> max_distance, find_alternative |-> find_alternative]

NotStarted == [state |-> "not_started", yielded |-> <<>>, path_count |-> 0, pulled |-> 0,
               start_node |-> None, goal_node |-> None, parents |-> <<>>]

\* bfs_shortest_path up to the while loop: resolution of the two locations
\* and the same-location check
BfsCall ==
    /\ pc = "idle"
    /\ IF ~(Resolvable(start) /\ Resolvable(goal))
       THEN /\ bfs_result' = Some(BfsReturn(None, {}, None))
            /\ pc' = "bfs_done"
            /\ bfs' = bfs
       ELSE LET start_node == get_nearest_node(start)
                goal_node == get_nearest_node(goal)
            IN IF same_location(start_node, goal_node)
               THEN /\ bfs_result' = Some(BfsReturn(Some(<<start_node>>), {start_node}, None))
                    /\ pc' = "bfs_done"
                    /\ bfs' = bfs
               ELSE /\ bfs' = BfsLocals(start_node, goal_node)
                    /\ pc' = "bfs"
                    /\ bfs_result' = bfs_result
    /\ UNCHANGED <<inputs, host_vars, dfs_vars, batch_result, stream>>

\* One iteration of the while loop of bfs_shortest_path, with the return
\* after the loop when the iteration leaves the queue empty
BfsLoop ==
    /\ pc = "bfs"
    /\ LET r == BfsIteration(bfs, Args) IN
       /\ bfs' = r.l
       /\ IF ~IsNone(r.ret)
          THEN bfs_result' = r.ret /\ pc' = "bfs_done"
          ELSE IF r.l.queue = <<>>
          THEN bfs_result' = Some(BfsAfterLoop(r.l)) /\ pc' = "bfs_done"
          ELSE bfs_result' = bfs_result /\ pc' = "bfs"
    /\ UNCHANGED <<inputs, host_vars, dfs_vars, batch_result, stream>>

\* find_all_shortest_paths_optimized(start, goal, max_paths)
find_all_shortest_paths_optimized(a, s, g, mp) ==
    IF ~(Resolvable(s) /\ Resolvable(g)) THEN <<>>
    ELSE LET start_node == get_nearest_node(s)
             goal_node == get_nearest_node(g)
         IN IF same_location(start_node, goal_node) THEN << <<start_node>> >>
            ELSE LET t == build_parent_tree(a, start_node, goal_node)
                 IN IF goal_node \notin DOMAIN t.distance THEN <<>>
                    ELSE backtrack_paths(goal_node, <<goal_node>>, <<>>, start_node,
                                         mp, t.parents)

BatchCall ==
    /\ pc = "bfs_done"
    /\ batch_result' = Some(find_all_shortest_paths_optimized(adj, start, goal, max_paths))
    /\ pc' = "batch_done"
    /\ UNCHANGED <<inputs, host_vars, dfs_vars, bfs, bfs_result, stream>>

\* find_all_shortest_paths_streaming up to its for loop: the generator runs
\* to its first suspension
StreamCall ==
    /\ pc = "batch_done"
    /\ IF ~(Resolvable(start) /\ Resolvable(goal))
       THEN stream' = [stream EXCEPT !.state = "finished"] /\ pc' = "done"
       ELSE LET start_node == get_nearest_node(start)
                goal_node == get_nearest_node(goal)
            IN IF same_location(start_node, goal_node)
               THEN /\ stream' = [stream EXCEPT !.state = "finished",
                                                !.yielded = << <<start_node>> >>]
                    /\ pc' = "done"
               ELSE LET t == build_parent_tree(adj, start_node, goal_node)
                    IN IF goal_node \notin DOMAIN t.distance
                       THEN stream' = [stream EXCEPT !.state = "finished"] /\ pc' = "done"
                       ELSE /\ stream' = [stream EXCEPT !.state = "running",
                                              !.start_node = Some(start_node),
                                              !.goal_node = Some(goal_node),
                                              !.parents = t.parents]
                            /\ pc' = "stream"
    /\ UNCHANGED <<inputs, host_vars, dfs_vars, bfs, bfs_result, batch_result>>

\* "if path_count >= max_paths: break"
\* (mutant) ">" for ">="
stream_cap_off_by_one(path_count, mp) == path_count > mp
stream_cap_reached(path_count, mp) == path_count >= mp

\* One turn of "for path in self._stream_backtrack(...)": the generator
\* builds its next path, then the cap is tested, then the path is yielded
StreamNext ==
    /\ pc = "stream"
    /\ LET g == Val(stream.goal_node)
           all == stream_backtrack(g, <<g>>, Val(stream.start_node), stream.parents)
       IN IF stream.pulled >= Len(all)
          THEN stream' = [stream EXCEPT !.state = "finished"] /\ pc' = "done"
          ELSE IF stream_cap_reached(stream.path_count, max_paths)
          THEN /\ stream' = [stream EXCEPT !.state = "finished", !.pulled = @ + 1]
               /\ pc' = "done"
          ELSE /\ stream' = [stream EXCEPT !.pulled = @ + 1,
                                 !.yielded = Append(@, all[stream.pulled + 1]),
                                 !.path_count = @ + 1]
               /\ pc' = "stream"
    /\ UNCHANGED <<inputs, host_vars, dfs_vars, bfs, bfs_result, batch_result>>

Next == BfsCall \/ BfsLoop \/ BatchCall \/ StreamCall \/ StreamNext

\* PathfindingController.find_optimal_paths, given what bfs_shortest_path and
\* find_all_shortest_paths_optimized return; a key the dictionary does not
\* have is None
find_optimal_paths(bfs_ret, all_optimal_paths) ==
    IF IsNone(bfs_ret.primary_path) \/ bfs_ret.primary_path = Some(<<>>)
    THEN [success |-> FALSE,
          message |-> Some("No path found between the specified locations"),
          paths |-> Some(<<>>), primary_path |-> None, all_paths |-> None,
          visited_nodes |-> None]
    ELSE [success |-> TRUE, message |-> None, paths |-> None,
          primary_path |-> bfs_ret.primary_path, all_paths |-> Some(all_optimal_paths),
          visited_nodes |-> Some(bfs_ret.visited)]

\* ============================================ ClassicDFSController
Threads == {1, 2}

\* _create_addis_ababa_constraints: the defaults and the speed, 8.3 m/s,
\* in decimetres per second
DFS_DEFAULT_MAX_PATHS == 5
DEFAULT_DEPTH_LIMIT == 25
DEFAULT_COST_LIMIT == 10000
average_speed_dm_per_s == 83

\* The constraint objects.  A message is a tuple of the text and the numbers
\* formatted into it; the empty message is <<>>.
NodeLimitConstraint(max_n) == [kind |-> "node_limit", limit |-> max_n, speed |-> 0]
DistanceConstraint(max_d) == [kind |-> "distance", limit |-> max_d, speed |-> 0]
TimeConstraint(max_time_seconds, speed) ==
    [kind |-> "time", limit |-> max_time_seconds, speed |-> speed]

Valid == [valid |-> TRUE, message |-> <<>>]
Invalid(message) == [valid |-> FALSE, message |-> message]
\* GenericPathCalculator.calculate_path_cost: the sum of the edge weights
calculate_path_cost(path, len) == calculate_path_distance(len, path)
\* NodeLimitConstraint.validate: the message reports the configured limit
NodeLimitValidate(c, path) ==
    IF Len(path) > c.limit
    THEN Invalid(<<"exceeds", "node_limit", Len(path), c.limit>>)
    ELSE Valid
\* DistanceConstraint.validate: the message reports computed cost and limit
DistanceValidate(c, path, len) ==
    IF calculate_path_cost(path, len) > c.limit
    THEN Invalid(<<"exceeds", "distance", calculate_path_cost(path, len), c.limit>>)
    ELSE Valid
\* (mutant) ">=" for ">": a path whose estimated time equals the limit fails
TimeValidateAtLimitFails(c, path, len) ==
    IF c.speed <= 0 THEN Valid
    ELSE IF 10 * calculate_path_cost(path, len) >= c.limit * c.speed
    THEN Invalid(<<"exceeds", "time", calculate_path_cost(path, len), c.limit>>)
    ELSE Valid
\* TimeConstraint.validate: estimated_time_s = distance_m / speed, compared
\* without division (speed in dm/s, positive in the second branch)
TimeValidate(c, path, len) ==
    IF c.speed <= 0 THEN Valid
    ELSE IF 10 * calculate_path_cost(path, len) > c.limit * c.speed
    THEN Invalid(<<"exceeds", "time", calculate_path_cost(path, len), c.limit>>)
    ELSE Valid
\* constraint.validate(path, graph)
validate(c, path, len) ==
    IF c.kind = "node_limit" THEN NodeLimitValidate(c, path)
    ELSE IF c.kind = "distance" THEN DistanceValidate(c, path, len)
    ELSE TimeValidate(c, path, len)

\* ClassicDFSController._create_addis_ababa_constraints
create_addis_ababa_constraints(max_depth, max_cost, max_time) ==
    <<NodeLimitConstraint(IF Truthy(max_depth) THEN Val(max_depth) ELSE DEFAULT_DEPTH_LIMIT),
      DistanceConstraint(IF Truthy(max_cost) THEN Val(max_cost) ELSE DEFAULT_COST_LIMIT)>>
    \o (IF Truthy(max_time)
        THEN <<TimeConstraint(Val(max_time), average_speed_dm_per_s)>>
        ELSE <<>>)

\* (mutant) the loop ends after the first constraint whatever it says
ValidateFirstOnly(constraints, path, len, i) ==
    LET v == IF i > Len(constraints) THEN Valid ELSE validate(constraints[i], path, len)
    IN [is_valid |-> v.valid,
        constraint_messages |-> IF v.valid THEN <<>> ELSE <<v.message>>,
        called |-> <<i>>]
\* "for constraint in constraints: ... if not valid: ... break", from the
\* i-th constraint on.  called is not a local of the code: it lists the
\* constraints whose validate() was called for this path.
RECURSIVE ValidateInOrder(_, _, _, _)
ValidateInOrder(constraints, path, len, i) ==
    IF i > Len(constraints)
    THEN [is_valid |-> TRUE, constraint_messages |-> <<>>, called |-> <<>>]
    ELSE LET v == validate(constraints[i], path, len)
         IN IF ~v.valid
            THEN [is_valid |-> FALSE, constraint_messages |-> <<v.message>>,
                  called |-> <<i>>]
            ELSE LET rest == ValidateInOrder(constraints, path, len, i + 1)
                 IN [rest EXCEPT !.called = <<i>> \o @]

\* (mutant) a passing path is put at the front of valid_paths
RECURSIVE FilterPathsNewestFirst(_, _, _, _)
FilterPathsNewestFirst(basic_paths, constraints, len, i) ==
    IF i > Len(basic_paths) THEN [valid_paths |-> <<>>, checked |-> <<>>]
    ELSE LET v == ValidateInOrder(constraints, basic_paths[i], len, 1)
             rest == FilterPathsNewestFirst(basic_paths, constraints, len, i + 1)
         IN [valid_paths |-> rest.valid_paths
                             \o (IF v.is_valid THEN <<basic_paths[i]>> ELSE <<>>),
             checked |-> <<v>> \o rest.checked]
\* "for path in basic_paths": valid_paths, and for each path what the inner
\* loop did (checked, not a local of the code)
RECURSIVE FilterPaths(_, _, _, _)
FilterPaths(basic_paths, constraints, len, i) ==
    IF i > Len(basic_paths) THEN [valid_paths |-> <<>>, checked |-> <<>>]
    ELSE LET v == ValidateInOrder(constraints, basic_paths[i], len, 1)
             rest == FilterPaths(basic_paths, constraints, len, i + 1)
         IN [valid_paths |-> (IF v.is_valid THEN <<basic_paths[i]>> ELSE <<>>)
                             \o rest.valid_paths,
             checked |-> <<v>> \o rest.checked]

\* ------------------------------ ClassicDFSAlgorithm (explicit-stack DFS)
\* the fields of a new algorithm object
NewClassicDFS == [visited_nodes |-> {}, all_found_paths |-> <<>>]
\* the partial paths pushed for the neighbours of the last node of path, in
\* list order, leaving out the nodes already on the path
RECURSIVE Extensions(_, _, _)
Extensions(path, nbrs, i) ==
    IF i > Len(nbrs) THEN <<>>
    ELSE (IF nbrs[i] \in SeqToSet(path) THEN <<>> ELSE <<Append(path, nbrs[i])>>)
         \o Extensions(path, nbrs, i + 1)
\* the loop over the stack of partial paths: pop the top; a path that ends
\* at the goal is a candidate, accepted if it passes the constraints; the
\* search stops at max_paths accepted candidates
RECURSIVE DfsLoop(_, _, _, _, _, _, _, _)
DfsLoop(stack, paths, visited, a, goal_node, constraints, len, mp) ==
    IF stack = <<>> \/ Len(paths) >= mp
    THEN [paths |-> paths, visited |-> visited]
    ELSE LET path == stack[Len(stack)]
             rest == SubSeq(stack, 1, Len(stack) - 1)
             node == path[Len(path)]
             seen == visited \cup {node}
         IN IF node = goal_node
            THEN DfsLoop(rest,
                         IF ValidateInOrder(constraints, path, len, 1).is_valid
                         THEN Append(paths, path) ELSE paths,
                         seen, a, goal_node, constraints, len, mp)
            ELSE DfsLoop(rest \o Extensions(path, get_neighbors(a, node), 1),
                         paths, seen, a, goal_node, constraints, len, mp)
\* ClassicDFSAlgorithm.find_path(start, goal, graph, constraints, max_paths):
\* the paths returned and the nodes visited
classic_dfs_find_path(start_node, goal_node, a, len, constraints, mp) ==
    DfsLoop(<< <<start_node>> >>, <<>>, {}, a, goal_node, constraints, len, mp)

\* ------------------------- ClassicDFSController.find_paths_with_constraints
\* A call: its arguments, where it is, its locals and what it returned
NewCall(s, g, mp, max_depth, max_cost, max_time) ==
    [pc |-> "called", start_location |-> s, goal_location |-> g, max_paths |-> mp,
     max_depth |-> max_depth, max_cost |-> max_cost, max_time |-> max_time,
     basic_paths |-> <<>>, visited_nodes |-> {}, checked |-> <<>>, result |-> None]
NotCalled ==
    [NewCall(NonExistentPlace, NonExistentPlace, DFS_DEFAULT_MAX_PATHS, None, None, None)
        EXCEPT !.pc = "off"]

\* the dictionaries returned; a key the dictionary does not have is None
Failure(message) ==
    [success |-> FALSE, message |-> Some(message), paths |-> <<>>,
     primary_path |-> None, all_found_paths |-> None, visited_nodes |-> None,
     constraints_applied |-> None, constraint_warning |-> None]
Success(paths, all_found_paths, visited_nodes, constraints_applied, warning) ==
    [success |-> TRUE, message |-> None, paths |-> paths,
     primary_path |-> Some(paths[1]), all_found_paths |-> Some(all_found_paths),
     visited_nodes |-> Some(visited_nodes),
     constraints_applied |-> Some(constraints_applied), constraint_warning |-> warning]
\* _get_constraint_descriptions
get_constraint_descriptions(constraints) ==
    [i \in 1..Len(constraints) |-> <<"max", constraints[i].kind, constraints[i].limit>>]

\* "try: ... get_nearest_node ... except Exception": the call goes on only if
\* both locations resolve
\* (mutant) only the start location is resolved inside the try
LocationsResolveStartOnly(s, g) == Resolvable(s)
LocationsResolve(s, g) == Resolvable(s) /\ Resolvable(g)

\* the code from "constraints = self._create_addis_ababa_constraints(...)" to
\* "return results", given the locals and the fields of the algorithm object
FilterAndReturn(c, len, all_found_paths) ==
    LET constraints == create_addis_ababa_constraints(c.max_depth, c.max_cost, c.max_time)
        f == FilterPaths(c.basic_paths, constraints, len, 1)
    IN [checked |-> f.checked,
        result |->
            IF f.valid_paths = <<>>
            THEN Success(c.basic_paths, all_found_paths, c.visited_nodes,
                         << <<"No constraints applied (too restrictive)">> >>,
                         Some(<<"Original constraints were too restrictive, showing unconstrained paths">>))
            ELSE Success(f.valid_paths, all_found_paths, c.visited_nodes,
                         get_constraint_descriptions(constraints), None)]

\* resolution of the locations and "basic_paths = self.classic_dfs.find_path(...)"
DfsCall(t) ==
    /\ calls[t].pc = "called"
    /\ LET c == calls[t] IN
       IF ~LocationsResolve(c.start_location, c.goal_location)
       THEN /\ calls' = [calls EXCEPT ![t].pc = "returned",
                            ![t].result = Some(Failure(<<"Could not find location">>))]
            /\ classic_dfs' = classic_dfs
       ELSE LET r == classic_dfs_find_path(get_nearest_node(c.start_location),
                                           get_nearest_node(c.goal_location),
                                           adj, edge_length, <<>>, c.max_paths)
            IN /\ classic_dfs' = [visited_nodes |-> r.visited, all_found_paths |-> r.paths]
               /\ IF r.paths = <<>>
                  THEN calls' = [calls EXCEPT ![t].pc = "returned",
                                    ![t].result = Some(Failure(<<"No paths found between the specified nodes">>))]
                  ELSE calls' = [calls EXCEPT ![t].pc = "searched",
                                    ![t].basic_paths = r.paths]
    /\ UNCHANGED <<inputs, host_vars, pc, bfs, bfs_result, batch_result, stream>>

\* "visited_nodes = self.classic_dfs.get_visited_nodes()"
DfsGetVisited(t) ==
    /\ calls[t].pc = "searched"
    /\ calls' = [calls EXCEPT ![t].pc = "got_visited",
                              ![t].visited_nodes = classic_dfs.visited_nodes]
    /\ UNCHANGED <<inputs, host_vars, pc, bfs, bfs_result, batch_result, stream, classic_dfs>>

\* the constraints, the filter and the result, which reads
\* self.classic_dfs.get_all_found_paths()
DfsReturn(t) ==
    /\ calls[t].pc = "got_visited"
    /\ LET r == FilterAndReturn(calls[t], edge_length, classic_dfs.all_found_paths)
       IN calls' = [calls EXCEPT ![t].pc = "returned",
                                 ![t].checked = r.checked,
                                 ![t].result = Some(r.result)]
    /\ UNCHANGED <<inputs, host_vars, pc, bfs, bfs_result, batch_result, stream, classic_dfs>>

NextDFS ==
    \/ Next
    \/ \E t \in Threads : DfsCall(t)
    \/ \E t \in Threads : DfsGetVisited(t)
    \/ \E t \in Threads : DfsReturn(t)

\* ------------------------------------------- TimeConstraint.validate alone
\* A call of validate(path, graph) on a TimeConstraint object; result is None
\* until the call returns.  cost_calls is not a field of the code: it counts
\* the calls of path_calculator.calculate_path_cost the call has made.
NoValidation == [constraint |-> None, path |-> <<>>, result |-> None, cost_calls |-> 0]
NewValidation(c, path) ==
    [constraint |-> Some(c), path |-> path, result |-> None, cost_calls |-> 0]

\* TimeConstraint.validate(path, graph): the early return for a degenerate
\* speed comes before "distance_m = self.path_calculator.calculate_path_cost"
TimeConstraintValidate ==
    /\ ~IsNone(validation.constraint)
    /\ IsNone(validation.result)
    /\ LET c == Val(validation.constraint) IN
       validation' = [validation EXCEPT
                         !.result = Some(TimeValidate(c, validation.path, edge_length)),
                         !.cost_calls = IF c.speed <= 0 THEN 0 ELSE 1]
    /\ UNCHANGED <<inputs, dfs_vars, pc, bfs, bfs_result, batch_result, stream,
                   similarity, gui>>

NextTime == TimeConstraintValidate

\* ------------------------------------- PathCalculator.paths_are_similar alone
\* A call of paths_are_similar(path1, path2, threshold); result is None until
\* it returns, and no call is made while called is FALSE
NoSimilarity ==
    [called |-> FALSE, path1 |-> <<>>, path2 |-> <<>>, threshold |-> 0, result |-> None]
NewSimilarity(path1, path2, threshold) ==
    [called |-> TRUE, path1 |-> path1, path2 |-> path2, threshold |-> threshold,
     result |-> None]

PathsAreSimilarCall ==
    /\ similarity.called
    /\ IsNone(similarity.result)
    /\ similarity' = [similarity EXCEPT
                         !.result = Some(paths_are_similar_threshold(
                                       similarity.path1, similarity.path2,
                                       similarity.threshold))]
    /\ UNCHANGED <<inputs, dfs_vars, pc, bfs, bfs_result, batch_result, stream,
                   validation, gui>>

NextSimilar == PathsAreSimilarCall

\* the GUI is not running
GuiOff == [running |-> FALSE]

\* ------------------------------------------------------- the GUI host
\* Text of an entry field: a sequence of tokens, " " being white space and
\* any other token a word.  What the user may have typed in a field
Typed ==
    {<<>>, <<" ">>, <<"Piassa">>, <<" ", "Gotera", " ">>, <<"piazza">>,
     <<"Nowhere">>}
\* The algorithm radio buttons
Algorithms == {"BFS", "DFS", "A*"}
\* self.locations and the keys of self.location_mapping
locations == {<<"Piassa">>, <<"Gotera">>}
location_mapping == {<<"piassa">>, <<"gotera">>, <<"piazza">>}

\* str.strip(): leading and trailing white space removed
RECURSIVE LStrip(_)
LStrip(text) ==
    IF text # <<>> /\ Head(text) = " " THEN LStrip(Tail(text)) ELSE text
RECURSIVE RStrip(_)
RStrip(text) ==
    IF text # <<>> /\ text[Len(text)] = " "
    THEN RStrip(SubSeq(text, 1, Len(text) - 1))
    ELSE text
Strip(text) == RStrip(LStrip(text))
\* str.lower()
LowerWord(word) ==
    CASE word = "Piassa" -> "piassa"
      [] word = "Gotera" -> "gotera"
      [] word = "Nowhere" -> "nowhere"
      [] OTHER -> word
Lower(text) == [i \in DOMAIN text |-> LowerWord(text[i])]

\* _validate_location: a non-empty name that is, ignoring case, a known
\* location or a key of the location mapping
ValidateLocation(location_input) ==
    /\ location_input # <<>>
    /\ \/ \E location \in locations : Lower(location) = Lower(location_input)
       \/ Lower(location_input) \in location_mapping

\* The window after setup: button enabled, fields empty, BFS selected, no
\* worker thread, no callback pending.  workers lists every thread
\* find_path has started; after_queue is Tk's queue of root.after
\* callbacks; callback_errors counts the callbacks that raised;
\* last_find_path says how the last find_path call returned and clicks
\* counts the calls
NewGui ==
    [running |-> TRUE, find_button |-> "normal",
     start_var |-> <<>>, end_var |-> <<>>, last_result |-> None,
     output |-> <<>>, workers |-> <<>>, after_queue |-> <<>>,
     callback_errors |-> 0, last_find_path |-> "none", clicks |-> 0]

\* A thread running _run_pathfinding(start, end, algorithm), about to call
\* the controller; e_bound says whether the name e of the except clause is
\* bound in the thread's frame, shown what its callbacks have inserted in
\* the output
NewWorker(start_loc, end_loc, algorithm) ==
    [start |-> start_loc, end |-> end_loc, algorithm |-> algorithm, pc |-> "search",
     raised |-> FALSE, e_bound |-> FALSE, shown |-> "nothing"]

\* The last two statements of find_path with the button left as it is
StartWithoutDisabling(g, start_loc, end_loc, algorithm) ==
    [g EXCEPT !.workers = Append(@, NewWorker(start_loc, end_loc, algorithm)),
              !.last_find_path = "started"]
\* The last two statements of find_path: disable the button, start the thread
DisableAndStart(g, start_loc, end_loc, algorithm) ==
    [g EXCEPT !.find_button = "disabled",
              !.workers = Append(@, NewWorker(start_loc, end_loc, algorithm)),
              !.last_find_path = "started"]

\* find_path, as the command of the find button, with the fields holding
\* start_text and end_text and the radio buttons on algorithm.  A disabled
\* ttk button does not invoke its command
FindPathResult(g, start_text, end_text, algorithm) ==
    LET start_loc == Strip(start_text)
        end_loc == Strip(end_text)
        typed == [g EXCEPT !.start_var = start_text, !.end_var = end_text,
                           !.clicks = @ + 1]
        named == [typed EXCEPT !.start_var = start_loc, !.end_var = end_loc]
        finding == [named EXCEPT !.output = <<"finding">>]
    IN  IF start_loc = <<>> \/ end_loc = <<>>
        THEN [typed EXCEPT !.last_find_path = "input_error"]
        ELSE IF start_loc = end_loc
        THEN IF ValidateLocation(start_loc)
             THEN [named EXCEPT !.output = <<"finding", "same_location">>,
                                !.last_find_path = "same_location"]
             ELSE [named EXCEPT !.output = Append(@, "start_not_found"),
                                !.last_find_path = "location_error"]
        ELSE IF ~ValidateLocation(start_loc) /\ ~ValidateLocation(end_loc)
        THEN [finding EXCEPT !.output = @ \o <<"start_not_found",
                                               "end_not_found">>,
                             !.last_find_path = "location_error"]
        ELSE IF ~ValidateLocation(start_loc)
        THEN [finding EXCEPT !.output = Append(@, "start_not_found"),
                             !.last_find_path = "location_error"]
        ELSE IF ~ValidateLocation(end_loc)
        THEN [finding EXCEPT !.output = Append(@, "end_not_found"),
                             !.last_find_path = "location_error"]
        ELSE DisableAndStart(finding, start_loc, end_loc, algorithm)

GuiUnchanged ==
    UNCHANGED <<inputs, dfs_vars, pc, bfs, bfs_result, batch_result, stream,
                validation, similarity>>

\* The user fills the fields and clicks the find button
FindPathClick ==
    /\ gui.running
    /\ gui.find_button = "normal"
    /\ gui.clicks < MaxClicks
    /\ \E start_text \in Typed, end_text \in Typed, algorithm \in Algorithms :
           gui' = FindPathResult(gui, start_text, end_text, algorithm)
    /\ GuiUnchanged

\* _run_pathfinding, try block: the controller of the chosen algorithm
\* returns a result, which is stored, or raises
WorkerSearch(w) ==
    /\ gui.workers[w].pc = "search"
    /\ \/ gui' = [gui EXCEPT !.workers[w].pc = "display",
                             !.last_result =
                                 Some(<<gui.workers[w].start,
                                        gui.workers[w].end,
                                        gui.workers[w].algorithm>>)]
       \/ gui' = [gui EXCEPT !.workers[w].pc = "except",
                             !.workers[w].raised = TRUE,
                             !.workers[w].e_bound = TRUE]
    /\ GuiUnchanged
\* _display_*_result: the output is posted to the main loop
WorkerDisplay(w) ==
    /\ gui.workers[w].pc = "display"
    /\ gui' = [gui EXCEPT !.workers[w].pc = "finally",
                          !.after_queue =
                              Append(@, [kind |-> "show_result",
                                         worker |-> w])]
    /\ GuiUnchanged
\* except clause: a callback that will evaluate str(e) is posted
WorkerExcept(w) ==
    /\ gui.workers[w].pc = "except"
    /\ gui' = [gui EXCEPT !.workers[w].pc = "leave_except",
                          !.after_queue =
                              Append(@, [kind |-> "display_error",
                                         worker |-> w])]
    /\ GuiUnchanged
\* End of the except clause: the name e is deleted from the frame
WorkerLeaveExcept(w) ==
    /\ gui.workers[w].pc = "leave_except"
    /\ gui' = [gui EXCEPT !.workers[w].pc = "finally",
                          !.workers[w].e_bound = FALSE]
    /\ GuiUnchanged
\* finally clause: the callback that re-enables the button is posted, and
\* the thread ends
WorkerFinally(w) ==
    /\ gui.workers[w].pc = "finally"
    /\ gui' = [gui EXCEPT !.workers[w].pc = "finished",
                          !.after_queue =
                              Append(@, [kind |-> "enable", worker |-> w])]
    /\ GuiUnchanged
WorkerStep ==
    /\ gui.running
    /\ \E w \in DOMAIN gui.workers :
           \/ WorkerSearch(w)
           \/ WorkerDisplay(w)
           \/ WorkerExcept(w)
           \/ WorkerLeaveExcept(w)
           \/ WorkerFinally(w)

\* What the oldest pending callback does on the main thread.  The error
\* callback reads e from the worker's frame when it runs: NameError, nothing
\* inserted, once the worker has left its except clause
RunCallback(g, callback) ==
    CASE callback.kind = "show_result" ->
             [g EXCEPT !.output = Append(@, "result"),
                       !.workers[callback.worker].shown = "result"]
      [] callback.kind = "display_error" ->
             IF g.workers[callback.worker].e_bound
             THEN [g EXCEPT !.output = Append(@, "error"),
                            !.workers[callback.worker].shown = "error"]
             ELSE [g EXCEPT !.callback_errors = @ + 1]
      [] callback.kind = "enable" ->
             [g EXCEPT !.find_button = "normal"]
\* The Tk main loop runs the oldest pending callback
MainLoop ==
    /\ gui.running
    /\ gui.after_queue # <<>>
    /\ gui' = RunCallback([gui EXCEPT !.after_queue = Tail(@)],
                          Head(gui.after_queue))
    /\ GuiUnchanged

NextGUI == FindPathClick \/ WorkerStep \/ MainLoop

\* ------------------------------------------------------- initial states
\* Nothing has been called yet on the service
ServiceIdle ==
    /\ pc = "idle"
    /\ bfs = None
    /\ bfs_result = None
    /\ batch_result = None
    /\ stream = NotStarted
\* Nothing has been called yet, and the controller is not used
\* No library function is called on its own and the GUI is not running
HostIdle ==
    /\ validation = NoValidation
    /\ similarity = NoSimilarity
    /\ gui = GuiOff
Idle ==
    /\ ServiceIdle
    /\ classic_dfs = NewClassicDFS
    /\ calls = [t \in Threads |-> NotCalled]
    /\ HostIdle

\* Every graph on Nodes with unit edge lengths, every pair of locations;
\* find_alternative varies with max_paths at its default, max_paths varies
\* with find_alternative at its default; no limits
Init ==
    /\ \E E \in SUBSET AllEdges, zigzag \in BOOLEAN :
          /\ adj = Adjacency(Nodes, E, zigzag)
          /\ edge_length = [e \in E |-> 1]
    /\ start \in Locations
    /\ goal \in Locations
    /\ max_nodes = None
    /\ max_distance = None
    /\ \/ find_alternative \in BOOLEAN /\ max_paths = DEFAULT_MAX_PATHS
       \/ find_alternative = FALSE /\ max_paths \in 0..MaxPaths
    /\ Idle

Spec == Init /\ [][Next]_vars

\* The calls under limits, on the graphs over LimitNodes.  At most one edge
\* is long (MaxLength), the others have length 1.  Either a distance limit
\* is given, or a node limit is given, or start and goal are the same node
\* and every argument varies.
LimitNodes == 1..NumLimitNodes
OptionalUpTo(n) == {None} \cup {Some(k) : k \in 0..n}
InitLimits ==
    /\ \/ /\ \E E \in SUBSET EdgesOver(LimitNodes), zigzag \in BOOLEAN,
                 long \in EdgesOver(LimitNodes) \cup {{}} :
                 /\ long \in E \cup {{}}
                 /\ adj = Adjacency(LimitNodes, E, zigzag)
                 /\ edge_length = [e \in E |-> IF e = long THEN MaxLength ELSE 1]
          /\ start \in LimitNodes \cup {NonExistentPlace}
          /\ goal \in LimitNodes \cup {NonExistentPlace}
          /\ \/ /\ max_distance \in OptionalUpTo(MaxDistance) \ {None}
                /\ max_nodes = None
             \/ /\ max_nodes \in OptionalUpTo(NumLimitNodes) \ {None}
                /\ max_distance = None
          /\ find_alternative \in BOOLEAN
          /\ max_paths = DEFAULT_MAX_PATHS
       \/ /\ \E E \in SUBSET EdgesOver(LimitNodes) :
                 /\ adj = Adjacency(LimitNodes, E, FALSE)
                 /\ edge_length = [e \in E |-> 1]
          /\ start \in LimitNodes
          /\ goal = start
          /\ max_distance \in OptionalUpTo(MaxDistance)
          /\ max_nodes \in OptionalUpTo(NumLimitNodes)
          /\ find_alternative \in BOOLEAN
          /\ max_paths \in 0..MaxPaths
    /\ Idle

SpecLimits == InitLimits /\ [][Next]_vars

\* The controller on the graphs over LimitNodes, edges of 10 m, at most one
\* of 10 * MaxLength m.  Either one thread calls it, with every combination
\* of limits, or two threads call it with the default limits.  The service
\* is called with the locations of the first thread.
OneOf(x) == {None, Some(x)}
InitDFS ==
    /\ \/ /\ \E E \in SUBSET EdgesOver(LimitNodes), zigzag \in BOOLEAN,
                 long \in EdgesOver(LimitNodes) \cup {{}} :
                 /\ long \in E \cup {{}}
                 /\ adj = Adjacency(LimitNodes, E, zigzag)
                 /\ edge_length = [e \in E |-> IF e = long THEN 10 * MaxLength ELSE 10]
          /\ \E s, g \in LimitNodes \cup {NonExistentPlace}, mp \in {1, DFS_DEFAULT_MAX_PATHS},
                 max_depth \in OneOf(2), max_cost \in OneOf(20), max_time \in OneOf(2) :
                 calls = [t \in Threads |->
                            IF t = 1 THEN NewCall(s, g, mp, max_depth, max_cost, max_time)
                            ELSE NotCalled]
       \/ /\ \E E \in SUBSET EdgesOver(LimitNodes) :
                 /\ adj = Adjacency(LimitNodes, E, FALSE)
                 /\ edge_length = [e \in E |-> 10]
          /\ \E s1, g1, s2, g2 \in LimitNodes :
                 calls = [t \in Threads |->
                            IF t = 1
                            THEN NewCall(s1, g1, DFS_DEFAULT_MAX_PATHS, None, None, None)
                            ELSE NewCall(s2, g2, DFS_DEFAULT_MAX_PATHS, None, None, None)]
    /\ start = calls[1].start_location
    /\ goal = calls[1].goal_location
    /\ max_nodes = None
    /\ max_distance = None
    /\ find_alternative = FALSE
    /\ max_paths = DEFAULT_MAX_PATHS
    /\ classic_dfs = NewClassicDFS
    /\ ServiceIdle
    /\ HostIdle

SpecDFS == InitDFS /\ [][NextDFS]_vars

\* TimeConstraint.validate on its own: a graph over LimitNodes with edges of
\* 1 m, at most one of MaxLength m; any list of distinct nodes as the path,
\* edges of the graph or not; a speed that is negative, zero, or 0.5, 1 or
\* 2 m/s; a limit of 0..MaxTime seconds
PathsOver(V) ==
    {p \in UNION {[1..n -> V] : n \in 0..Cardinality(V)} :
        \A i, j \in DOMAIN p : i # j => p[i] # p[j]}
Speeds == {-10, 0, 5, 10, 20}
InitTime ==
    /\ \E E \in SUBSET EdgesOver(LimitNodes), long \in EdgesOver(LimitNodes) \cup {{}} :
          /\ long \in E \cup {{}}
          /\ adj = Adjacency(LimitNodes, E, FALSE)
          /\ edge_length = [e \in E |-> IF e = long THEN MaxLength ELSE 1]
    /\ start = NonExistentPlace
    /\ goal = NonExistentPlace
    /\ max_nodes = None
    /\ max_distance = None
    /\ find_alternative = FALSE
    /\ max_paths = DEFAULT_MAX_PATHS
    /\ ServiceIdle
    /\ classic_dfs = NewClassicDFS
    /\ calls = [t \in Threads |-> NotCalled]
    /\ \E path \in PathsOver(LimitNodes), speed \in Speeds, max_time_seconds \in 0..MaxTime :
          validation = NewValidation(TimeConstraint(max_time_seconds, speed), path)
    /\ similarity = NoSimilarity
    /\ gui = GuiOff

SpecTime == InitTime /\ [][NextTime]_vars

\* paths_are_similar on its own: two lists of nodes over LimitNodes, empty
\* or with repeated nodes too, and a threshold of -0.1, 0.0, 0.1, ..., 1.0
ListsOver(V) == UNION {[1..n -> V] : n \in 0..Cardinality(V)}
ThresholdTenths == -1..10
InitSimilar ==
    /\ adj = Adjacency(LimitNodes, {}, FALSE)
    /\ edge_length = [e \in {} |-> 1]
    /\ start = NonExistentPlace
    /\ goal = NonExistentPlace
    /\ max_nodes = None
    /\ max_distance = None
    /\ find_alternative = FALSE
    /\ max_paths = DEFAULT_MAX_PATHS
    /\ ServiceIdle
    /\ classic_dfs = NewClassicDFS
    /\ calls = [t \in Threads |-> NotCalled]
    /\ validation = NoValidation
    /\ \E path1, path2 \in ListsOver(LimitNodes), threshold \in ThresholdTenths :
          similarity = NewSimilarity(path1, path2, threshold)
    /\ gui = GuiOff

SpecSimilar == InitSimilar /\ [][NextSimilar]_vars

\* The GUI on its own: the window is up, nothing else is called.  The
\* worker threads and the Tk main loop keep running
InitGUI ==
    /\ adj = Adjacency(LimitNodes, {}, FALSE)
    /\ edge_length = [e \in {} |-> 1]
    /\ start = NonExistentPlace
    /\ goal = NonExistentPlace
    /\ max_nodes = None
    /\ max_distance = None
    /\ find_alternative = FALSE
    /\ max_paths = DEFAULT_MAX_PATHS
    /\ ServiceIdle
    /\ classic_dfs = NewClassicDFS
    /\ calls = [t \in Threads |-> NotCalled]
    /\ validation = NoValidation
    /\ similarity = NoSimilarity
    /\ gui = NewGui
SpecGUI ==
    InitGUI /\ [][NextGUI]_vars /\ WF_vars(WorkerStep) /\ WF_vars(MainLoop)

\* The 3x3 grid with 4-directional edges of 100 m: node (r, c), r and c in
\* 0..2, is numbered 3r + c + 1.  A node lists its neighbours in the order
\* of the four directions in which the edges were inserted.
GridCoords == 0..2
GridId(r, c) == r * Cardinality(GridCoords) + c + 1
GridNodes == {GridId(r, c) : r \in GridCoords, c \in GridCoords}
Directions == {<<0, 1>>, <<1, 0>>, <<0, -1>>, <<-1, 0>>}
DirectionOrders ==
    {o \in [1..Cardinality(Directions) -> Directions] :
        \A i, j \in DOMAIN o : i # j => o[i] # o[j]}
GridEdges ==
    {{GridId(r, c), GridId(r + d[1], c + d[2])} :
        <<r, c, d>> \in {x \in GridCoords \X GridCoords \X Directions :
                           /\ x[1] + x[3][1] \in GridCoords
                           /\ x[2] + x[3][2] \in GridCoords}}
RECURSIVE GridNeighbors(_, _, _, _)
GridNeighbors(r, c, order, i) ==
    IF i > Len(order) THEN <<>>
    ELSE (IF r + order[i][1] \in GridCoords /\ c + order[i][2] \in GridCoords
          THEN <<GridId(r + order[i][1], c + order[i][2])>>
          ELSE <<>>)
         \o GridNeighbors(r, c, order, i + 1)
GridAdjacency(order) ==
    [n \in GridNodes |->
        LET rc == CHOOSE x \in GridCoords \X GridCoords : GridId(x[1], x[2]) = n
        IN GridNeighbors(rc[1], rc[2], order, 1)]

\* The grid scenario: from (0,0) to (2,2), no limits, max_paths 5 or 6
InitGrid ==
    /\ \E order \in DirectionOrders : adj = GridAdjacency(order)
    /\ edge_length = [e \in GridEdges |-> 100]
    /\ start = GridId(0, 0)
    /\ goal = GridId(2, 2)
    /\ max_nodes = None
    /\ max_distance = None
    /\ find_alternative \in BOOLEAN
    /\ max_paths \in DEFAULT_MAX_PATHS..(DEFAULT_MAX_PATHS + 1)
    /\ Idle

SpecGrid == InitGrid /\ [][Next]_vars

\* ===================================================================
\* What the claims speak of, stated on the graph itself (not on the
\* search's data structures)
\* ===================================================================
GraphNodes == DOMAIN adj
Adjacent(u, v) == {u, v} \in DOMAIN edge_length
Resolved == Resolvable(start) /\ Resolvable(goal)
StartNode == get_nearest_node(start)
GoalNode == get_nearest_node(goal)

\* the nodes at most k edges away from a node of S
RECURSIVE Ball(_, _)
Ball(S, k) ==
    IF k = 0 THEN S
    ELSE LET B == Ball(S, k - 1)
         IN B \cup {n \in GraphNodes : \E m \in B : Adjacent(m, n)}
Reachable(s, g) == g \in Ball({s}, Cardinality(GraphNodes))
\* the least number of edges of a path from s to g (g reachable from s)
HopDistance(s, g) ==
    CHOOSE k \in 0..Cardinality(GraphNodes) :
        /\ g \in Ball({s}, k)
        /\ \A j \in 0..(k - 1) : g \notin Ball({s}, j)

\* the walks of k edges from s to n; one of HopDistance(s, n) edges is a
\* hop-shortest path
RECURSIVE WalksTo(_, _, _)
WalksTo(s, n, k) ==
    IF k = 0 THEN (IF n = s THEN {<<s>>} ELSE {})
    ELSE UNION {{Append(w, n) : w \in WalksTo(s, m, k - 1)} :
                m \in {x \in GraphNodes : Adjacent(x, n)}}
ShortestPaths(s, g) ==
    IF Reachable(s, g) THEN WalksTo(s, g, HopDistance(s, g)) ELSE {}

\* a path from s to g: non-empty, from s to g, no node twice, every step an edge
IsPath(p, s, g) ==
    /\ Len(p) >= 1
    /\ p[1] = s
    /\ p[Len(p)] = g
    /\ \A i, j \in 1..Len(p) : i # j => p[i] # p[j]
    /\ \A i \in 1..(Len(p) - 1) : Adjacent(p[i], p[i + 1])

BfsReturned == ~IsNone(bfs_result)
BfsPath == Val(bfs_result).primary_path
BatchReturned == ~IsNone(batch_result)
BatchPaths == Val(batch_result)
NoLimits == IsNone(max_nodes) /\ IsNone(max_distance)
IsPrefixOf(s, t) == Len(s) <= Len(t) /\ s = SubSeq(t, 1, Len(s))

\* ===================================================================
\* The claims
\* ===================================================================

\* C1: for distinct start and goal with the goal reachable, bfs_shortest_path
\* called with no node limit and no distance limit returns a primary path,
\* and that path is a path of the graph from start to goal whose number of
\* edges is the minimum hop distance from start to goal.
C1_BfsPathHasMinimumHops ==
    (/\ BfsReturned
     /\ Resolved
     /\ StartNode # GoalNode
     /\ Reachable(StartNode, GoalNode)
     /\ NoLimits)
    => /\ ~IsNone(BfsPath)
       /\ IsPath(Val(BfsPath), StartNode, GoalNode)
       /\ Len(Val(BfsPath)) - 1 = HopDistance(StartNode, GoalNode)

\* C1 witness: BFS has returned a path of at least two edges for distinct
\* endpoints under no limits.
C1_Witness ==
    /\ BfsReturned
    /\ Resolved
    /\ StartNode # GoalNode
    /\ NoLimits
    /\ ~IsNone(BfsPath)
    /\ Len(Val(BfsPath)) >= 3
    /\ HopDistance(StartNode, GoalNode) = Len(Val(BfsPath)) - 1

\* C2: every path returned by bfs_shortest_path (primary or alternative), by
\* find_all_shortest_paths_optimized or yielded by
\* find_all_shortest_paths_streaming is non-empty, begins at the resolved
\* start node, ends at the resolved goal node, contains no node twice, and
\* every consecutive pair of its nodes is an edge of the graph.
C2_ReturnedPathsArePaths ==
    /\ (BfsReturned /\ ~IsNone(BfsPath)) => IsPath(Val(BfsPath), StartNode, GoalNode)
    /\ (BfsReturned /\ ~IsNone(Val(bfs_result).alternative_path))
           => IsPath(Val(Val(bfs_result).alternative_path), StartNode, GoalNode)
    /\ BatchReturned
           => \A i \in 1..Len(BatchPaths) : IsPath(BatchPaths[i], StartNode, GoalNode)
    /\ \A i \in 1..Len(stream.yielded) : IsPath(stream.yielded[i], StartNode, GoalNode)

\* C2 witness: all three functions have returned a path of at least two
\* edges, the enumerators more than one.
C2_Witness ==
    /\ pc = "done"
    /\ ~IsNone(BfsPath)
    /\ Len(Val(BfsPath)) >= 3
    /\ Len(BatchPaths) >= 2
    /\ Len(stream.yielded) >= 2

\* C3: the paths yielded by find_all_shortest_paths_streaming are, element by
\* element and in the same order, the list find_all_shortest_paths_optimized
\* returns for the same inputs: what has been yielded so far is a prefix of
\* the batch list, and once the generator has finished it is the whole list.
C3_StreamingEqualsBatch ==
    BatchReturned
    => /\ IsPrefixOf(stream.yielded, BatchPaths)
       /\ stream.state = "finished" => stream.yielded = BatchPaths

\* C3 witness: the generator has finished after yielding two paths or more.
C3_Witness ==
    /\ stream.state = "finished"
    /\ BatchReturned
    /\ Len(stream.yielded) >= 2

\* C4 (as claimed): for every start and goal, equal or distinct, and every
\* max_paths >= 0, the batch enumerator returns at most max_paths paths and
\* the streaming enumerator yields at most max_paths paths.
C4_AtMostMaxPaths ==
    /\ BatchReturned => Len(BatchPaths) <= max_paths
    /\ Len(stream.yielded) <= max_paths

\* C5: all paths returned by one call of the enumerator (batch or streaming)
\* have the same node count, the hop distance from start to goal plus one,
\* and no two of them are element-wise identical.
SameLengthAndDistinct(paths) ==
    /\ \A i \in 1..Len(paths) : Len(paths[i]) = HopDistance(StartNode, GoalNode) + 1
    /\ \A i, j \in 1..Len(paths) : i # j => paths[i] # paths[j]
C5_EqualLengthDistinctPaths ==
    /\ BatchReturned => SameLengthAndDistinct(BatchPaths)
    /\ SameLengthAndDistinct(stream.yielded)

\* C5 witness: both enumerators have produced two paths or more.
C5_Witness ==
    /\ BatchReturned
    /\ Len(BatchPaths) >= 2
    /\ Len(stream.yielded) >= 2

\* C6 (as claimed): when the number of distinct hop-shortest paths from start
\* to goal is at most max_paths the batch enumerator returns every one of
\* them; when there are more it returns exactly max_paths of them.
C6_AllOrExactlyMaxPaths ==
    (BatchReturned /\ Resolved)
    => LET all == ShortestPaths(StartNode, GoalNode)
       IN IF Cardinality(all) <= max_paths
          THEN /\ SeqToSet(BatchPaths) = all
               /\ Len(BatchPaths) = Cardinality(all)
          ELSE /\ Len(BatchPaths) = max_paths
               /\ SeqToSet(BatchPaths) \subseteq all

\* The grid scenario of C7
OnGrid ==
    /\ DOMAIN edge_length = GridEdges
    /\ start = GridId(0, 0)
    /\ goal = GridId(2, 2)

\* C7 (as claimed): on the 3x3 grid from (0,0) to (2,2) the BFS primary path
\* has 4 edges and the enumerator called with max_paths=5 returns exactly 6
\* equal-length paths, all the minimal lattice paths, each of 4 edges.
C7_GridSixPathsUnderCapFive ==
    (OnGrid /\ pc = "done" /\ max_paths = DEFAULT_MAX_PATHS)
    => /\ Len(Val(BfsPath)) - 1 = 4
       /\ Len(BatchPaths) = 6
       /\ SeqToSet(BatchPaths) = ShortestPaths(StartNode, GoalNode)
       /\ \A i \in 1..Len(BatchPaths) : Len(BatchPaths[i]) - 1 = 4

\* C7 (amended): on the 3x3 grid from (0,0) to (2,2) the BFS primary path has
\* 4 edges; there are 6 minimal lattice paths; the enumerator called with
\* max_paths=5 returns exactly 5 of them, pairwise distinct, each of 4 edges,
\* and returns all 6 only when max_paths is at least 6.
C7_GridFivePathsUnderCapFive ==
    (OnGrid /\ pc = "done")
    => /\ Len(Val(BfsPath)) - 1 = 4
       /\ Cardinality(ShortestPaths(StartNode, GoalNode)) = 6
       /\ SeqToSet(BatchPaths) \subseteq ShortestPaths(StartNode, GoalNode)
       /\ \A i \in 1..Len(BatchPaths) : Len(BatchPaths[i]) - 1 = 4
       /\ Cardinality(SeqToSet(BatchPaths)) = Len(BatchPaths)
       /\ max_paths = DEFAULT_MAX_PATHS => Len(BatchPaths) = 5
       /\ max_paths >= 6 => Len(BatchPaths) = 6

\* C7 witness: the calls on the grid have returned, the enumerator under
\* max_paths=5 with 5 paths.
C7_Witness ==
    /\ OnGrid
    /\ pc = "done"
    /\ max_paths = DEFAULT_MAX_PATHS
    /\ Len(BatchPaths) = 5
    /\ Len(Val(BfsPath)) = 5

\* bfs_shortest_path got as far as its while loop
BfsSearched == DOMAIN bfs # {}
\* the path by which the search first reached the goal
GoalFound == BfsSearched /\ bfs.goal_node \in bfs.visited
FirstPathFound == reconstruct_path(bfs.parent, bfs.goal_node)
FirstPathCost == calculate_path_distance(edge_length, FirstPathFound)
\* the search stopped in the iteration that reached the goal: the goal is
\* the last node enqueued and the node whose neighbours found it is the last
\* one counted
StoppedAtGoal ==
    /\ bfs.queue # <<>>
    /\ bfs.queue[Len(bfs.queue)] = bfs.goal_node
    /\ bfs.nodes_processed = Cardinality(bfs.expanded)
    /\ bfs.parent[bfs.goal_node] \in {Some(n) : n \in bfs.expanded}

\* C8 (as claimed): when a distance limit D is given and the first path by
\* which BFS reaches the goal has cost greater than D, bfs_shortest_path
\* returns no path together with the visited set accumulated so far and does
\* not go on to look for another path.
C8_FailClosedOnDistance ==
    (/\ BfsReturned
     /\ ~IsNone(max_distance)
     /\ GoalFound
     /\ FirstPathCost > Val(max_distance))
    => /\ IsNone(BfsPath)
       /\ IsNone(Val(bfs_result).alternative_path)
       /\ Val(bfs_result).visited = bfs.visited
       /\ StoppedAtGoal

\* C9 (as claimed): if bfs_shortest_path is called with a distance limit D,
\* any D >= 0, and returns a path, the cost of that path as computed by
\* calculate_path_distance is at most D.
C9_ReturnedPathWithinDistance ==
    (/\ BfsReturned
     /\ ~IsNone(max_distance)
     /\ ~IsNone(BfsPath))
    => calculate_path_distance(edge_length, Val(BfsPath)) <= Val(max_distance)

Dequeued == Cardinality(bfs.visited) - Len(bfs.queue)
\* the search was stopped by the node limit
StoppedByNodeLimit ==
    /\ BfsSearched
    /\ Truthy(max_nodes)
    /\ bfs.nodes_processed > Val(max_nodes)

\* C11: with a node limit m >= 1, bfs_shortest_path counts one processed node
\* per dequeue, tests the counter before it expands the dequeued node, never
\* iterates the neighbours of more than m nodes, and on dequeuing the
\* (m+1)-th node returns no path together with the partial visited set.
C11_NodeLimit ==
    (BfsSearched /\ ~IsNone(max_nodes) /\ Val(max_nodes) >= 1)
    => /\ bfs.nodes_processed = Dequeued
       /\ bfs.nodes_processed <= Val(max_nodes) + 1
       /\ Cardinality(bfs.expanded) <= Val(max_nodes)
       /\ bfs.nodes_processed <= Val(max_nodes)
              => Cardinality(bfs.expanded) = bfs.nodes_processed
       /\ bfs.nodes_processed = Val(max_nodes) + 1
              => /\ Cardinality(bfs.expanded) = Val(max_nodes)
                 /\ BfsReturned
                 /\ Val(bfs_result) = BfsReturn(None, bfs.visited, None)
                 /\ bfs.visited # {}

\* C11 witness: the search was stopped on dequeuing the third node under a
\* node limit of 2, with a node still queued.
C11_Witness ==
    /\ StoppedByNodeLimit
    /\ Val(max_nodes) = 2
    /\ bfs.nodes_processed = 3
    /\ Cardinality(bfs.expanded) = 2
    /\ BfsReturned
    /\ IsNone(BfsPath)

\* a call of bfs_shortest_path on the same graph and nodes with other limits
SearchAgain(mn, fa) ==
    BfsWhile(BfsLocals(bfs.start_node, bfs.goal_node),
             [Args EXCEPT !.max_nodes = mn, !.find_alternative = fa])
\* the number of expansions after which the search reaches the goal
ExpansionsToReachGoal == Cardinality(SearchAgain(None, FALSE).l.expanded)
\* the number of nodes the call dequeues when nothing limits it
ExpansionsRequired == SearchAgain(None, find_alternative).l.nodes_processed
\* the nodes the search can have seen after expanding the nodes of S
SeenFrom(S) == {bfs.start_node} \cup {n \in GraphNodes : \E m \in S : Adjacent(m, n)}

\* C12: on a graph where reaching the goal takes more than max_nodes
\* expansions, bfs_shortest_path returns no path with a non-empty visited set
\* bounded by what max_nodes expansions can see; called again on the same
\* graph with a limit above the number of expansions the search requires, it
\* returns a path.
C12_NodeLimitThenRaised ==
    (/\ BfsReturned
     /\ BfsSearched
     /\ ~IsNone(max_nodes)
     /\ Val(max_nodes) >= 1
     /\ IsNone(max_distance)
     /\ Reachable(StartNode, GoalNode)
     /\ ExpansionsToReachGoal > Val(max_nodes))
    => /\ IsNone(BfsPath)
       /\ Val(bfs_result).visited # {}
       /\ Cardinality(bfs.expanded) <= Val(max_nodes)
       /\ Val(bfs_result).visited \subseteq SeenFrom(bfs.expanded)
       /\ \A raised \in (ExpansionsRequired + 1)..(Cardinality(GraphNodes) + 1) :
              LET again == SearchAgain(Some(raised), find_alternative).ret
              IN /\ ~IsNone(again.primary_path)
                 /\ IsPath(Val(again.primary_path), StartNode, GoalNode)

\* C12 witness: the goal is two expansions away, the search under a node
\* limit of 1 has returned no path, and a limit of 3 is above what the search
\* requires.
C12_Witness ==
    /\ BfsReturned
    /\ StoppedByNodeLimit
    /\ Val(max_nodes) = 1
    /\ Reachable(StartNode, GoalNode)
    /\ ExpansionsToReachGoal = 2
    /\ IsNone(BfsPath)
    /\ ExpansionsRequired + 1 <= Cardinality(GraphNodes)
    /\ ~IsNone(SearchAgain(Some(Cardinality(GraphNodes)), find_alternative).ret.primary_path)

\* the nodes reachable from the start node
ReachableSet == Ball({StartNode}, Cardinality(GraphNodes))

\* C13: when the goal is not reachable from start and no node limit is
\* given, bfs_shortest_path stops once every node reachable from start has
\* been enqueued and dequeued exactly once (it never dequeues more than that),
\* and returns no path with visited equal to the set of nodes reachable from
\* start; the batch enumerator returns an empty list and the streaming
\* enumerator yields nothing.
C13_UnreachableGoal ==
    (Resolved /\ ~Reachable(StartNode, GoalNode) /\ IsNone(max_nodes))
    => /\ BfsSearched
          => /\ bfs.nodes_processed = Dequeued
             /\ bfs.nodes_processed = Cardinality(bfs.expanded)
             /\ bfs.expanded \subseteq ReachableSet
             /\ bfs.expanded \cap SeqToSet(bfs.queue) = {}
             /\ Cardinality(SeqToSet(bfs.queue)) = Len(bfs.queue)
       /\ pc # "idle" => BfsSearched
       /\ BfsReturned
          => /\ bfs.queue = <<>>
             /\ bfs.expanded = ReachableSet
             /\ bfs.nodes_processed = Cardinality(ReachableSet)
             /\ Val(bfs_result) = BfsReturn(None, ReachableSet, None)
       /\ BatchReturned => BatchPaths = <<>>
       /\ stream.yielded = <<>>
       /\ stream.pulled = 0
       /\ pc # "stream"
       /\ pc = "done" => stream.state = "finished"

\* C13 witness: the three calls have returned for a goal outside the
\* component of the start node, which has three nodes.
C13_Witness ==
    /\ pc = "done"
    /\ Resolved
    /\ ~Reachable(StartNode, GoalNode)
    /\ Cardinality(ReachableSet) = 3
    /\ Val(bfs_result).visited = ReachableSet
    /\ IsNone(BfsPath)
    /\ BatchPaths = <<>>

\* the result of a search that ends with NoPathFound: the unlimited search
\* from s for g on this graph empties its queue without reaching g
NoPathFoundResults ==
    {r.ret : r \in {x \in {BfsWhile(BfsLocals(s, g),
                                     [Args EXCEPT !.max_nodes = None,
                                                  !.max_distance = None]) :
                              <<s, g>> \in {y \in GraphNodes \X GraphNodes : y[1] # y[2]}} :
                     x.l.queue = <<>> /\ IsNone(x.l.shortest_length)}}

\* C14 (as claimed): a search aborted because the node limit was reached
\* returns no path with a non-empty visited set, and what it returns to the
\* caller differs, by a message or a field, from what a search that found no
\* path returns.
C14_LimitDistinguishableFromNoPath ==
    (BfsReturned /\ StoppedByNodeLimit)
    => /\ IsNone(BfsPath)
       /\ Val(bfs_result).visited # {}
       /\ Val(bfs_result) \notin NoPathFoundResults

\* C15: if the resolver raises for the start or for the goal, nothing is
\* expanded and the caller gets a value, not an exception: bfs_shortest_path
\* returns (None, empty set, None), the batch enumerator an empty list, the
\* streaming enumerator yields nothing, and the controllers return
\* success=false with an empty paths list.
C15_UnresolvableLocation ==
    ~Resolved
    => /\ ~BfsSearched
       /\ pc \notin {"bfs", "stream"}
       /\ BfsReturned => Val(bfs_result) = BfsReturn(None, {}, None)
       /\ BatchReturned => BatchPaths = <<>>
       /\ stream.yielded = <<>>
       /\ stream.pulled = 0
       /\ pc = "done" => stream.state = "finished"
       /\ BatchReturned
              => LET r == find_optimal_paths(Val(bfs_result), BatchPaths)
                 IN ~r.success /\ r.paths = Some(<<>>)
       /\ (/\ calls[1].pc # "off"
           /\ calls[1].start_location = start
           /\ calls[1].goal_location = goal)
              => /\ calls[1].pc \in {"called", "returned"}
                 /\ calls[1].basic_paths = <<>>
                 /\ calls[2].pc = "off" => classic_dfs = NewClassicDFS
                 /\ calls[1].pc = "returned"
                        => /\ ~Val(calls[1].result).success
                           /\ Val(calls[1].result).paths = <<>>

\* C15 witness: the goal does not resolve, the start does and has a
\* neighbour, and the service calls and the controller have all returned.
C15_Witness ==
    /\ Resolvable(start)
    /\ ~Resolvable(goal)
    /\ Len(adj[start]) >= 1
    /\ pc = "done"
    /\ calls[1].start_location = start
    /\ calls[1].goal_location = goal
    /\ calls[1].pc = "returned"
    /\ ~Val(calls[1].result).success

\* the call of thread t has returned, and what it returned
Returned(t) == calls[t].pc = "returned"
Result(t) == Val(calls[t].result)
\* the constraint list built for the call of thread t
ConstraintsOf(t) ==
    create_addis_ababa_constraints(calls[t].max_depth, calls[t].max_cost, calls[t].max_time)
\* path passes validate() of every constraint of the call of thread t
PassesAll(t, path) ==
    \A i \in 1..Len(ConstraintsOf(t)) : validate(ConstraintsOf(t)[i], path, edge_length).valid

\* C16 (as claimed): whenever find_paths_with_constraints returns
\* success=true, primary_path is present and passes validate() of every
\* constraint in the list built for that call.
C16_PrimaryPassesEveryConstraint ==
    \A t \in Threads :
        (Returned(t) /\ Result(t).success)
        => /\ ~IsNone(Result(t).primary_path)
           /\ PassesAll(t, Val(Result(t).primary_path))

\* C16 (amended): whenever find_paths_with_constraints returns success=true,
\* primary_path is present and is the first of paths; if the result has no
\* constraint_warning, every path of paths passes every constraint of the
\* list built for that call; if it has one, no candidate passed them all and
\* paths is the unconstrained candidate list.
C16_PrimaryPassesUnlessWarned ==
    \A t \in Threads :
        (Returned(t) /\ Result(t).success)
        => /\ ~IsNone(Result(t).primary_path)
           /\ Result(t).paths # <<>>
           /\ Val(Result(t).primary_path) = Result(t).paths[1]
           /\ IsNone(Result(t).constraint_warning)
                  => \A i \in 1..Len(Result(t).paths) : PassesAll(t, Result(t).paths[i])
           /\ ~IsNone(Result(t).constraint_warning)
                  => /\ Result(t).paths = calls[t].basic_paths
                     /\ \A i \in 1..Len(calls[t].basic_paths) :
                            ~PassesAll(t, calls[t].basic_paths[i])

\* C16 witness: a call with a time limit has returned success=true without
\* warning after one of its two candidates was rejected.
C16_Witness ==
    /\ Returned(1)
    /\ Result(1).success
    /\ ~IsNone(calls[1].max_time)
    /\ IsNone(Result(1).constraint_warning)
    /\ Len(calls[1].basic_paths) = 2
    /\ Len(Result(1).paths) = 1
    /\ PassesAll(1, Val(Result(1).primary_path))

\* every candidate of the call of thread t in DFS enumeration order (the
\* search run with a cap no graph of this size reaches)
AllCandidates(t) ==
    classic_dfs_find_path(get_nearest_node(calls[t].start_location),
                          get_nearest_node(calls[t].goal_location), adj, edge_length, <<>>,
                          Cardinality(GraphNodes) * Cardinality(GraphNodes)
                              * Cardinality(GraphNodes)).paths
\* the number of paths of a list that pass every constraint of the call
NumPassing(t, paths) == Cardinality({i \in 1..Len(paths) : PassesAll(t, paths[i])})

\* C17 (as claimed): candidates rejected by a constraint do not count against
\* max_paths: the number of constraint-satisfying paths returned is
\* min(max_paths, number of constraint-satisfying candidates in DFS
\* enumeration order), however many rejected candidates were found first.
C17_RejectedDoNotCount ==
    \A t \in Threads :
        (/\ calls[t].pc # "off"
         /\ LocationsResolve(calls[t].start_location, calls[t].goal_location)
         /\ Returned(t))
        => LET passing == NumPassing(t, AllCandidates(t))
               expected == IF passing <= calls[t].max_paths THEN passing
                           ELSE calls[t].max_paths
           IN NumPassing(t, Result(t).paths) = expected

\* the messages and descriptions the result of thread t carries
Surfaced(t) ==
    (IF IsNone(Result(t).message) THEN {} ELSE {Val(Result(t).message)})
    \cup (IF IsNone(Result(t).constraint_warning) THEN {}
          ELSE {Val(Result(t).constraint_warning)})
    \cup (IF IsNone(Result(t).constraints_applied) THEN {}
          ELSE SeqToSet(Val(Result(t).constraints_applied)))
\* the constraints are called on the k-th candidate of thread t in list
\* order up to the first that fails
InOrderUntilFirstFailure(t, k) ==
    LET v == calls[t].checked[k]
        path == calls[t].basic_paths[k]
        ok(i) == validate(ConstraintsOf(t)[i], path, edge_length).valid
        n == Len(v.called)
    IN /\ n >= 1
       /\ v.called = [i \in 1..n |-> i]
       /\ \A i \in 1..(n - 1) : ok(i)
       /\ v.is_valid <=> ok(n)
       /\ v.is_valid => n = Len(ConstraintsOf(t))
\* the message of the constraint that rejected the k-th candidate of thread t
FailureMessage(t, k) ==
    validate(ConstraintsOf(t)[Len(calls[t].checked[k].called)],
             calls[t].basic_paths[k], edge_length).message

\* C18 (as claimed): constraints are evaluated against a candidate path in
\* list order, evaluation of that path stops at the first failing constraint,
\* and the failing constraint's message is surfaced in the result returned
\* to the caller.
C18_FirstFailureMessageSurfaced ==
    \A t \in Threads :
        Returned(t)
        => \A k \in 1..Len(calls[t].checked) :
              /\ InOrderUntilFirstFailure(t, k)
              /\ ~calls[t].checked[k].is_valid
                     => /\ calls[t].checked[k].constraint_messages = <<FailureMessage(t, k)>>
                        /\ FailureMessage(t, k) \in Surfaced(t)

\* what the call of thread t returns when no other call runs meanwhile
AloneResult(t) ==
    LET c == calls[t] IN
    IF ~LocationsResolve(c.start_location, c.goal_location)
    THEN Failure(<<"Could not find location">>)
    ELSE LET r == classic_dfs_find_path(get_nearest_node(c.start_location),
                                        get_nearest_node(c.goal_location),
                                        adj, edge_length, <<>>, c.max_paths)
         IN IF r.paths = <<>>
            THEN Failure(<<"No paths found between the specified nodes">>)
            ELSE FilterAndReturn([c EXCEPT !.basic_paths = r.paths,
                                           !.visited_nodes = r.visited],
                                 edge_length, r.paths).result

\* C19 (as claimed): two searches running concurrently on separate threads
\* through the same controller instance, interleaved at any step, each return
\* exactly the result they return when run alone; the visited_nodes and
\* all_found_paths reported for a search are those of that search.
C19_ConcurrentSearchesIndependent ==
    \A t \in Threads :
        (calls[t].pc # "off" /\ Returned(t)) => Result(t) = AloneResult(t)

\* C20 (as claimed): the max_paths cap is applied during backtracking, not as
\* a post-filter: in the batch and in the streaming form, once max_paths
\* complete start-to-goal paths have been produced no further parent is
\* explored and no further complete path is constructed, so at most
\* max_paths complete paths are ever built in one call.
C20_CapDuringBacktracking ==
    (Resolved /\ StartNode # GoalNode)
    => /\ BatchReturned => Len(BatchPaths) <= max_paths
       /\ Len(stream.yielded) <= max_paths
       /\ stream.pulled <= max_paths

\* the call of TimeConstraint.validate has returned; its constraint, its
\* result and the cost of its path
Validated == ~IsNone(validation.result)
ValidatedConstraint == Val(validation.constraint)
ValidationResult == Val(validation.result)
ValidatedCost == calculate_path_distance(edge_length, validation.path)

\* C21: TimeConstraint.validate returns valid when the average speed is <= 0,
\* without computing the path cost; otherwise it returns invalid exactly when
\* cost(path) / speed is strictly greater than max_time_seconds (a path whose
\* estimated time equals the limit passes); the message is empty on success
\* and non-empty on failure.
C21_TimeValidate ==
    Validated
    => /\ ValidatedConstraint.speed <= 0
              => ValidationResult.valid /\ validation.cost_calls = 0
       /\ ValidatedConstraint.speed > 0
              => /\ ~ValidationResult.valid
                        <=> 10 * ValidatedCost
                               > ValidatedConstraint.limit * ValidatedConstraint.speed
                 /\ 10 * ValidatedCost = ValidatedConstraint.limit * ValidatedConstraint.speed
                        => ValidationResult.valid
       /\ ValidationResult.valid => ValidationResult.message = <<>>
       /\ ~ValidationResult.valid => ValidationResult.message # <<>>

\* C21 witness: a path of positive cost whose estimated time equals the
\* limit has been validated at a positive speed, and passed.
C21_Witness ==
    /\ Validated
    /\ ValidatedConstraint.speed > 0
    /\ ValidatedCost > 0
    /\ 10 * ValidatedCost = ValidatedConstraint.limit * ValidatedConstraint.speed
    /\ ValidationResult = Valid
    /\ validation.cost_calls = 1

\* what _build_parent_tree(start_node, goal_node) returned to the enumerator
\* that has been called
TreeBuilt == BatchReturned /\ Resolved /\ StartNode # GoalNode
ParentTree == build_parent_tree(adj, StartNode, GoalNode)
TreeReachedGoal == TreeBuilt /\ GoalNode \in DOMAIN ParentTree.distance
\* the neighbours of n one level nearer to the start
Predecessors(distance, n) ==
    {q \in GraphNodes : /\ Adjacent(q, n)
                        /\ q \in DOMAIN distance
                        /\ distance[q] + 1 = distance[n]}

\* C22: when _build_parent_tree returns having reached the goal, for every
\* node n with distance[n] <= distance[goal], distance[n] is the true hop
\* distance from start to n and parents[n] lists, without duplicates, exactly
\* the neighbours p of n with distance[p] + 1 = distance[n]; the expansion
\* stops when the goal is dequeued: the goal is the last node dequeued, no
\* node is dequeued twice, and every node recorded was seen from a node
\* dequeued before the goal.
C22_ParentTree ==
    TreeReachedGoal
    => LET t == ParentTree
           n_deq == Len(t.dequeued)
       IN /\ \A n \in DOMAIN t.distance :
                 t.distance[n] <= t.distance[GoalNode]
                 => /\ t.distance[n] = HopDistance(StartNode, n)
                    /\ SeqToSet(t.parents[n]) = Predecessors(t.distance, n)
                    /\ Cardinality(SeqToSet(t.parents[n])) = Len(t.parents[n])
          /\ {n \in GraphNodes : /\ Reachable(StartNode, n)
                                 /\ HopDistance(StartNode, n)
                                        <= HopDistance(StartNode, GoalNode)}
                 \subseteq DOMAIN t.distance
          /\ n_deq >= 1
          /\ t.dequeued[n_deq] = GoalNode
          /\ Cardinality(SeqToSet(t.dequeued)) = n_deq
          /\ \A n \in DOMAIN t.distance :
                 \/ n = StartNode
                 \/ \E i \in 1..(n_deq - 1) : Adjacent(t.dequeued[i], n)
          /\ pc = "stream" => stream.parents = t.parents

\* C22 witness: the tree was built for a goal two edges away that has two
\* parents, the goal being the fourth node dequeued.
C22_Witness ==
    /\ TreeReachedGoal
    /\ ParentTree.distance[GoalNode] = 2
    /\ Len(ParentTree.parents[GoalNode]) = 2
    /\ Len(ParentTree.dequeued) = 4

\* the nodes bfs_shortest_path has expanded in this invocation
ExpandedSet == IF BfsSearched THEN bfs.expanded ELSE {}
\* the nodes dequeued but not expanded: the node on which the limit struck
DequeuedUnexpanded == (bfs.visited \ bfs.expanded) \ SeqToSet(bfs.queue)

DissimilarShortestPaths(path) ==
    {q \in ShortestPaths(StartNode, GoalNode) : q # path /\ ~paths_are_similar(q, path)}

\* C24 (as claimed): with find_alternative=True and no limits, when a second
\* hop-shortest path from start to goal exists that is not similar to the
\* primary path, bfs_shortest_path returns one such path as alternative_path:
\* it has the same node count as the primary path and differs from it.
C24_AlternativeReturned ==
    (/\ BfsReturned
     /\ Resolved
     /\ find_alternative
     /\ NoLimits
     /\ ~IsNone(BfsPath)
     /\ DissimilarShortestPaths(Val(BfsPath)) # {})
    => LET alt == Val(bfs_result).alternative_path
       IN /\ ~IsNone(alt)
          /\ Val(alt) \in DissimilarShortestPaths(Val(BfsPath))
          /\ Len(Val(alt)) = Len(Val(BfsPath))
          /\ Val(alt) # Val(BfsPath)

\* the candidates of the call of thread t that pass every constraint, in the
\* order in which DFS found them
PassingCandidates(t) == SelectSeq(calls[t].basic_paths, LAMBDA path : PassesAll(t, path))

\* C25: in ClassicDFSController.find_paths_with_constraints, when DFS finds
\* candidates but none passes the constraints, the result is success=true
\* with paths equal to the unconstrained candidate list in the same order,
\* primary_path its first element, and a non-empty constraint_warning; when
\* at least one candidate passes, paths is exactly the passing candidates in
\* discovery order and there is no constraint_warning.
C25_FallbackOrPassing ==
    \A t \in Threads :
        (Returned(t) /\ calls[t].basic_paths # <<>>)
        => /\ Result(t).success
           /\ IF PassingCandidates(t) = <<>>
              THEN /\ Result(t).paths = calls[t].basic_paths
                   /\ Result(t).primary_path = Some(calls[t].basic_paths[1])
                   /\ ~IsNone(Result(t).constraint_warning)
                   /\ Val(Result(t).constraint_warning) # <<>>
              ELSE /\ Result(t).paths = PassingCandidates(t)
                   /\ Result(t).primary_path = Some(PassingCandidates(t)[1])
                   /\ IsNone(Result(t).constraint_warning)

\* C25 witness: a call whose two candidates both fail a constraint has
\* returned them both, with the warning.
C25_Witness ==
    /\ Returned(1)
    /\ Len(calls[1].basic_paths) = 2
    /\ PassingCandidates(1) = <<>>
    /\ Result(1).success
    /\ Result(1).paths = calls[1].basic_paths
    /\ ~IsNone(Result(1).constraint_warning)

\* the call of paths_are_similar has returned
SimilarityReturned == similarity.called /\ ~IsNone(similarity.result)
\* the threshold of the call lies in [0, 1)
ThresholdInUnitRange == similarity.threshold >= 0 /\ similarity.threshold < 10
NodeSet(path) == {path[i] : i \in DOMAIN path}

\* C26: paths_are_similar(p1, p2, t) is true exactly when p2 is non-empty and
\* |set(p1) /\ set(p2)| > t * max(|set(p1)|, |set(p2)|); so for every
\* threshold t in [0, 1) it is symmetric in p1 and p2 and true for any
\* non-empty path compared with itself.
C26_PathsAreSimilar ==
    SimilarityReturned
    => LET p1 == similarity.path1
           p2 == similarity.path2
           t == similarity.threshold
           n1 == Cardinality(NodeSet(p1))
           n2 == Cardinality(NodeSet(p2))
           overlap == Cardinality(NodeSet(p1) \cap NodeSet(p2))
       IN /\ Val(similarity.result)
                 <=> /\ Len(p2) > 0
                     /\ 10 * overlap > t * (IF n1 >= n2 THEN n1 ELSE n2)
          /\ ThresholdInUnitRange
                 => /\ Val(similarity.result) = paths_are_similar_threshold(p2, p1, t)
                    /\ (p1 = p2 /\ Len(p1) > 0) => Val(similarity.result)

\* C26 witness: two different lists that share 2 of 3 nodes were compared at
\* threshold 0.5 and found similar; the lists have different lengths.
C26_Witness ==
    /\ SimilarityReturned
    /\ similarity.threshold = 5
    /\ Len(similarity.path1) = 3
    /\ Len(similarity.path2) = 2
    /\ Cardinality(NodeSet(similarity.path1)) = 3
    /\ NodeSet(similarity.path2) \subseteq NodeSet(similarity.path1)
    /\ Cardinality(NodeSet(similarity.path2)) = 2
    /\ Val(similarity.result)

\* what PathfindingController.find_optimal_paths returns, once both service
\* calls it makes have returned (it calls bfs_shortest_path with the default
\* arguments)
ControllerReturned == BatchReturned /\ ~find_alternative /\ NoLimits
ControllerResult == find_optimal_paths(Val(bfs_result), BatchPaths)

\* C27: for every graph, every reachable pair start # goal and every
\* max_paths >= 1, the first path returned by
\* find_all_shortest_paths_optimized is identical to the primary path
\* returned by bfs_shortest_path without limits; so a success result of
\* PathfindingController.find_optimal_paths has all_paths[0] equal to
\* primary_path, and the paths all_paths[1:] shown as alternatives all differ
\* from the primary path.
C27_FirstBatchPathIsPrimary ==
    /\ (/\ BatchReturned
        /\ NoLimits
        /\ Resolved
        /\ StartNode # GoalNode
        /\ Reachable(StartNode, GoalNode)
        /\ max_paths >= 1)
       => /\ ~IsNone(BfsPath)
          /\ BatchPaths # <<>>
          /\ BatchPaths[1] = Val(BfsPath)
    /\ (ControllerReturned /\ max_paths >= 1 /\ ControllerResult.success)
       => LET all_paths == Val(ControllerResult.all_paths)
              primary_path == Val(ControllerResult.primary_path)
          IN /\ all_paths # <<>>
             /\ all_paths[1] = primary_path
             /\ \A i \in 2..Len(all_paths) : all_paths[i] # primary_path

\* C27 witness: the controller's result has two paths, the first of them the
\* BFS primary path, on a graph whose even nodes list their neighbours in
\* descending order.
C27_Witness ==
    /\ ControllerReturned
    /\ ControllerResult.success
    /\ StartNode # GoalNode
    /\ Len(BatchPaths) = 2
    /\ BatchPaths[1] = Val(BfsPath)
    /\ \E n \in GraphNodes : Len(adj[n]) >= 2 /\ adj[n][1] > adj[n][2]

\* what the same call returns with the other value of find_alternative
OtherFindAlternative == SearchAgain(max_nodes, ~find_alternative).ret

\* C28 (as claimed): for every graph, start, goal, max_nodes and
\* max_distance, bfs_shortest_path returns the same primary path, or the same
\* absence of a path, when called with find_alternative=True as when called
\* with find_alternative=False.
C28_FindAlternativeKeepsPrimary ==
    (BfsReturned /\ BfsSearched)
    => Val(bfs_result).primary_path = OtherFindAlternative.primary_path

\* ------------------------------------------------------------- C29
\* The threads that have not yet run _run_pathfinding to its end
ActiveWorkers ==
    {w \in DOMAIN gui.workers : gui.workers[w].pc # "finished"}
\* C29: in the GUI at most one _run_pathfinding thread is active at any
\* time: while a thread is active the find button, the only way to start
\* one, is disabled, and the button is enabled only when every thread that
\* was started has finished
C29_OneWorkerAtATime ==
    /\ Cardinality(ActiveWorkers) <= 1
    /\ ActiveWorkers # {} => gui.find_button = "disabled"
    /\ gui.find_button = "normal" => ActiveWorkers = {}
\* A second search is running after the first one has finished and its
\* callback has re-enabled the button
C29_Witness ==
    /\ Len(gui.workers) = 2
    /\ gui.workers[1].pc = "finished"
    /\ gui.workers[2].pc = "search"
    /\ gui.find_button = "disabled"

\* ------------------------------------------------------------- C30
\* No callback posted by worker w is still pending
NoPending(w) ==
    \A i \in DOMAIN gui.after_queue : gui.after_queue[i].worker # w
\* Every thread has ended and every callback has run
Quiescent ==
    /\ ActiveWorkers = {}
    /\ gui.after_queue = <<>>
\* The last call of find_path returned without starting a worker
ReturnedEarly ==
    gui.last_find_path \in {"input_error", "same_location", "location_error"}
\* Once the search has returned and the callbacks are done, the button is
\* enabled again
ButtonReenabled ==
    Quiescent => gui.find_button = "normal"
\* find_path returning without a worker leaves the button enabled
EarlyReturnKeepsButton ==
    ReturnedEarly => gui.find_button = "normal"
\* C30 (as claimed): whenever find_path has disabled the button and started
\* a worker, the button is enabled again once the search has returned and the
\* posted callbacks have run, also when the controller raised, in which case
\* the error has been displayed; and every return of find_path without a
\* worker (empty input, same location, invalid location) leaves the button
\* enabled.
C30_ButtonReenabledErrorShown ==
    /\ ButtonReenabled
    /\ \A w \in DOMAIN gui.workers :
           (gui.workers[w].pc = "finished" /\ NoPending(w)
               /\ gui.workers[w].raised)
           => gui.workers[w].shown = "error"
    /\ EarlyReturnKeepsButton

====
